---- MODULE Spec2Model ----
(***************************************************************************)
(* Model of language_streamlit.py: the ranking pipeline                    *)
(*   fetch_top_words -> get_translations -> get_similarity_scores          *)
(*   -> sorted(...)[:word_count] -> get_meanings                           *)
(* together with the st.cache_data memoisation of the four functions.      *)
(*                                                                         *)
(* A Python str is a sequence of characters, a Python list a sequence, a   *)
(* Python dict (insertion ordered) a sequence of <<key, value>> pairs with *)
(* pairwise distinct keys.  A float score is the exact rational            *)
(* <<numerator, denominator>> that Levenshtein.ratio rounds.               *)
(***************************************************************************)
EXTENDS Integers, Sequences, FiniteSets, TLC

(***************************************************************************)
(* Bounds of the model.                                                    *)
(***************************************************************************)
\* lines of a frequency-list response body
MaxLines == 4
\* buffer_count passed by the pipeline (100 in the script), scaled down
BufferCount == 3
\* the slider's range (5..100 in the script), scaled down
MinWordCount == 1
MaxWordCount == 3
\* script runs of one browser session
MaxRuns == 2
\* length of the strings the scorer is applied to on its own
MaxStrLen == 2
\* calls of cached functions one concurrent session makes
MaxCalls == 2

(***************************************************************************)
(* Python values.                                                          *)
(***************************************************************************)
\* None, as a value that compares with strings of characters
None == <<"None">>

Range(s) == {s[i] : i \in 1..Len(s)}

Min(a, b) == IF a <= b THEN a ELSE b

\* s[:n] for n >= 0
Take(s, n) == SubSeq(s, 1, Min(n, Len(s)))

\* all sequences over S of length lo..hi
SeqsOf(S, lo, hi) == UNION {[1..n -> S] : n \in lo..hi}

\* dict operations
Keys(d) == [i \in 1..Len(d) |-> d[i][1]]

KeySet(d) == {d[i][1] : i \in 1..Len(d)}

Get(d, k) == LET i == CHOOSE j \in 1..Len(d) : d[j][1] = k IN d[i][2]

\* d[k] = v: an existing key keeps its position, a new key is appended
Put(d, k, v) ==
    IF k \in KeySet(d)
    THEN [i \in 1..Len(d) |-> IF d[i][1] = k THEN <<k, v>> ELSE d[i]]
    ELSE Append(d, <<k, v>>)

(***************************************************************************)
(* Characters, str.lower and unidecode.                                    *)
(* "a_acute" is U+00E1, "A_acute" U+00C1, "sharp_s" U+00DF and "sad" is    *)
(* U+0635 (ARABIC LETTER SAD, which has no case and which unidecode        *)
(* transliterates to "S").                                                 *)
(***************************************************************************)
Chars == {"a", "A", "s", "a_acute", "sad"}

lowerChar(c) ==
    CASE c = "A" -> "a"
      [] c = "B" -> "b"
      [] c = "S" -> "s"
      [] c = "A_acute" -> "a_acute"
      [] OTHER -> c

unidecodeChar(c) ==
    CASE c = "a_acute" -> <<"a">>
      [] c = "A_acute" -> <<"A">>
      [] c = "sharp_s" -> <<"s", "s">>
      [] c = "sad" -> <<"S">>
      [] OTHER -> <<c>>

RECURSIVE lower(_)
lower(s) == IF s = <<>> THEN <<>> ELSE <<lowerChar(Head(s))>> \o lower(Tail(s))

RECURSIVE unidecode(_)
unidecode(s) == IF s = <<>> THEN <<>> ELSE unidecodeChar(Head(s)) \o unidecode(Tail(s))

(***************************************************************************)
(* Levenshtein.ratio: 1 - indel_distance/(len(a)+len(b)), 1.0 for two      *)
(* empty strings.                                                          *)
(***************************************************************************)
RECURSIVE distance(_, _)
distance(a, b) ==
    IF a = <<>> THEN Len(b)
    ELSE IF b = <<>> THEN Len(a)
    ELSE IF Head(a) = Head(b) THEN distance(Tail(a), Tail(b))
    ELSE 1 + Min(distance(Tail(a), b), distance(a, Tail(b)))

ratio(a, b) ==
    LET lensum == Len(a) + Len(b) IN
    IF lensum = 0 THEN <<1, 1>> ELSE <<lensum - distance(a, b), lensum>>

\* comparisons of two scores
ScoreLE(x, y) == x[1] * y[2] <= y[1] * x[2]

ScoreEq(x, y) == x[1] * y[2] = y[1] * x[2]

ScoreLT(x, y) == x[1] * y[2] < y[1] * x[2]

(***************************************************************************)
(* The word-frequency source.  A response is what requests.get gives for   *)
(* one URL: a connection failure (requests raises), or a status and a body *)
(* whose lines are sequences of whitespace-separated tokens.               *)
(***************************************************************************)
fallback_lang == "en"

ConnectionError == [failed |-> TRUE, status |-> 0, text |-> <<>>]

\* raw.githubusercontent.com's answer for a language without a 50k list
NotFound ==
    [failed |-> FALSE, status |-> 404,
     text |-> << << <<"4", "0", "4", ":">>, <<"N", "o", "t">>, <<"F", "o", "u", "n", "d">> >> >>]

Body(lines) == [failed |-> FALSE, status |-> 200, text |-> lines]

\* the result of a call: the exception that left it, or the value returned
Raise(e) == [exc |-> e, val |-> <<>>]

Return(v) == [exc |-> "", val |-> v]

Raised(r) == r.exc # ""

\* [line.split()[0] for line in response.text.splitlines()[:buffer_count]]
get_words(response, buffer_count) ==
    IF response.failed THEN Raise("ConnectionError")
    ELSE LET lines == Take(response.text, buffer_count) IN
         IF \E i \in 1..Len(lines) : lines[i] = <<>>
         THEN Raise("IndexError")
         ELSE Return([i \in 1..Len(lines) |-> lines[i][1]])

\* primary is the response to the request for `language`, secondary the
\* response to the request for `fallback`, made only when the first list is
\* empty
fetch_top_words(primary, secondary, buffer_count) ==
    LET words == get_words(primary, buffer_count) IN
    IF Raised(words) THEN words
    ELSE IF words.val # <<>> THEN words
    ELSE get_words(secondary, buffer_count)

(***************************************************************************)
(* The bilingual lexicon.  Word2word(lang_to_learn, native_lang) loads the *)
(* lexicon of the pair and raises when there is none; a lexicon answers a  *)
(* word with its candidates, or raises KeyError.                           *)
(***************************************************************************)
KeyError == [candidates |-> <<>>, found |-> FALSE]

Entry(cs) == [candidates |-> cs, found |-> TRUE]

\* lookup with the word itself recorded when the lookup fails
lookup_keeps_word(lex, word) ==
    IF lex[word].found /\ lex[word].candidates # <<>>
    THEN lex[word].candidates[1]
    ELSE word

\* learn2native(word)[0] inside try/except
lookup(lex, word) ==
    IF lex[word].found /\ lex[word].candidates # <<>>
    THEN lex[word].candidates[1]
    ELSE None

RECURSIVE translate_loop(_, _, _)
translate_loop(top_words, lex, translations) ==
    IF top_words = <<>> THEN translations
    ELSE translate_loop(Tail(top_words), lex,
                        Put(translations, Head(top_words), lookup(lex, Head(top_words))))

get_translations(top_words, available, lex) ==
    IF ~available THEN Raise("Exception")
    ELSE Return(translate_loop(top_words, lex, <<>>))

\* {word: trans for word, trans in translations.items() if trans is not None}
RECURSIVE valid_only(_)
valid_only(translations) ==
    IF translations = <<>> THEN <<>>
    ELSE IF Head(translations)[2] # None
         THEN <<Head(translations)>> \o valid_only(Tail(translations))
         ELSE valid_only(Tail(translations))

(***************************************************************************)
(* The similarity scorer.                                                  *)
(***************************************************************************)
score_of(word, translation) == ratio(unidecode(lower(word)), lower(unidecode(translation)))

RECURSIVE get_similarity_scores(_)
get_similarity_scores(translations) ==
    IF translations = <<>> THEN <<>>
    ELSE LET word == Head(translations)[1]
             trans == Head(translations)[2]
             rest == get_similarity_scores(Tail(translations))
         IN IF trans # None THEN << <<word, score_of(word, trans)>> >> \o rest ELSE rest

(***************************************************************************)
(* The ranker: sorted(items, key=lambda x: x[1], reverse=True), a stable   *)
(* sort, then [:word_count].                                               *)
(***************************************************************************)
\* insert with x put before the items of its own score
RECURSIVE insert_before_equal(_, _)
insert_before_equal(items, x) ==
    IF items = <<>> THEN <<x>>
    ELSE IF ScoreLE(Head(items)[2], x[2]) THEN <<x>> \o items
    ELSE <<Head(items)>> \o insert_before_equal(Tail(items), x)

\* x goes behind every item whose score is not smaller than its own
RECURSIVE insert(_, _)
insert(items, x) ==
    IF items = <<>> THEN <<x>>
    ELSE IF ScoreLT(Head(items)[2], x[2]) THEN <<x>> \o items
    ELSE <<Head(items)>> \o insert(Tail(items), x)

RECURSIVE sort_loop(_, _)
sort_loop(items, acc) ==
    IF items = <<>> THEN acc ELSE sort_loop(Tail(items), insert(acc, Head(items)))

\* sorted without reverse=True
RECURSIVE insert_ascending(_, _)
insert_ascending(items, x) ==
    IF items = <<>> THEN <<x>>
    ELSE IF ScoreLT(x[2], Head(items)[2]) THEN <<x>> \o items
    ELSE <<Head(items)>> \o insert_ascending(Tail(items), x)

RECURSIVE sorted_ascending_loop(_, _)
sorted_ascending_loop(items, acc) ==
    IF items = <<>> THEN acc
    ELSE sorted_ascending_loop(Tail(items), insert_ascending(acc, Head(items)))

sorted_ascending(items) == sorted_ascending_loop(items, <<>>)

sorted_reverse(items) == sort_loop(items, <<>>)

(***************************************************************************)
(* The meaning enricher.  service[i] tells whether the translation         *)
(* service answers the i-th request ("ok") or raises ("error"); an answer  *)
(* is the service's gloss of the word.                                     *)
(***************************************************************************)
NoTranslation == <<"[No translation]">>

GoogleTranslate(word) == <<"gloss">> \o word

\* meanings_loop with the batch given up at the first failure
RECURSIVE meanings_loop_abort(_, _, _, _)
meanings_loop_abort(words, service, i, meanings) ==
    IF i > Len(words) THEN meanings
    ELSE IF service[i] # "ok" THEN meanings
    ELSE meanings_loop_abort(words, service, i + 1,
                             Put(meanings, words[i], GoogleTranslate(words[i])))

RECURSIVE meanings_loop(_, _, _, _)
meanings_loop(words, service, i, meanings) ==
    IF i > Len(words) THEN meanings
    ELSE meanings_loop(words, service, i + 1,
                       Put(meanings, words[i],
                           IF service[i] = "ok" THEN GoogleTranslate(words[i])
                           ELSE NoTranslation))

get_meanings(words, service) == meanings_loop(words, service, 1, <<>>)

(***************************************************************************)
(* st.cache_data: one store per decorated function, a dict from the call's *)
(* arguments to the value the function returned.  A call that raises       *)
(* stores nothing.                                                         *)
(***************************************************************************)
CacheHas(c, fn, key) == \E i \in 1..Len(c[fn]) : c[fn][i][1] = key

CacheGet(c, fn, key) == Get(c[fn], key)

CachePut(c, fn, key, val) == [c EXCEPT ![fn] = Put(@, key, val)]

\* the result of the decorated function: the stored value on a hit, the
\* result of the computation otherwise
cache_data(c, fn, key, computed) ==
    IF CacheHas(c, fn, key) THEN Return(CacheGet(c, fn, key)) ELSE computed

\* the store after the call
cache_after(c, fn, key, computed) ==
    IF CacheHas(c, fn, key) \/ Raised(computed) THEN c ELSE CachePut(c, fn, key, computed.val)

(***************************************************************************)
(* Inputs of the model.                                                    *)
(***************************************************************************)
\* language_options, restricted to the codes the model uses
LearnLanguages == {"it", "en"}

NativeLanguages == {"de"}

\* words of the frequency lists and of the lexicons
LearnVocab == {<<"a">>, <<"B">>, <<"a", "b">>}

NativeVocab == {<<"a">>, <<"b">>}

\* a line "<word> <count>", or a blank line
Lines == {<<w, <<"1">>>> : w \in LearnVocab} \cup {<<>>}

Responses(maxLines) ==
    {ConnectionError, NotFound} \cup {Body(l) : l \in SeqsOf(Lines, 0, maxLines)}

\* the translation service answers a request or raises
ServiceOutcomes == {"ok", "error"}

\* the responses of the pipeline's runs
PipelineResponses == Responses(MaxLines)

LexEntries == {KeyError, Entry(<< <<"a">> >>), Entry(<< <<"b">>, <<"a">> >>)}

\* the sessions whose calls of the cached functions run concurrently
Callers == {"s1", "s2"}

\* a session is not in a call; waited tells whether its last call had to wait
\* for another session's computation of the same arguments
Idle(waited, n) ==
    [at |-> "idle", fn |-> "", key |-> <<>>, n |-> n, result |-> Return(<<>>), waited |-> waited]

\* the words a frequency list of the model can hold
ListWords == LearnVocab \cup {NotFound.text[1][1]}

\* no lookup of the word has been made yet
NotLookedUp == [candidates |-> << <<"?">> >>, found |-> FALSE]

NoLookups == [t \in LearnLanguages \X NativeLanguages \X ListWords |-> NotLookedUp]

VARIABLES
    lang_to_learn,      \* the widgets' values
    native_lang,
    word_count,
    pc,                 \* the statement the script run is at
    exception,          \* the function whose exception ended the run
    responses,          \* the responses the last fetch_top_words computation got
    fetched_words,
    translations,
    valid_translations,
    similarity_scores,
    top_matches,
    selected_meanings,
    outcomes,           \* the translation service's outcomes in this run's computation of get_meanings
    lexicon,            \* the lexicon entries looked up so far, by <<source, target, word>>
    cache,              \* the st.cache_data stores
    runs,               \* script runs started
    previous,           \* word_count and top_matches of the run before
    calls,              \* what each concurrent session's call of a cached function is at
    returned            \* the <<function, arguments, value>> such calls have returned

vars == <<lang_to_learn, native_lang, word_count, pc, exception, responses, fetched_words,
          translations, valid_translations, similarity_scores, top_matches,
          selected_meanings, outcomes, lexicon, cache, runs, previous, calls, returned>>

widgets == <<lang_to_learn, native_lang, word_count>>

sessions == <<calls, returned>>

\* there is no run before the first
NoRun == [top_matches |-> <<>>, word_count |-> 0]

EmptyCache ==
    [fetch_top_words |-> <<>>, get_meanings |-> <<>>, get_similarity_scores |-> <<>>,
     get_translations |-> <<>>]

\* the script's variables before its first assignment to them
Unset ==
    /\ exception = ""
    /\ responses = <<>>
    /\ fetched_words = <<>>
    /\ translations = <<>>
    /\ valid_translations = <<>>
    /\ similarity_scores = <<>>
    /\ top_matches = <<>>
    /\ selected_meanings = <<>>
    /\ outcomes = <<>>

\* the inputs are well formed: a line is blank or "<word> <count>", a lexicon
\* entry that is found has candidates of the native vocabulary
InputsOK ==
    /\ \A l \in Lines : l = <<>> \/ (Len(l) = 2 /\ l[1] \in LearnVocab)
    /\ \A r \in PipelineResponses : Len(r.text) <= MaxLines
    /\ \A e \in LexEntries : e.found => (e.candidates # <<>> /\ Range(e.candidates) \subseteq NativeVocab)
    /\ \A o \in ServiceOutcomes : o \in {"ok", "error"}

\* the select boxes are at their defaults (index=3 and index=1)
Init ==
    /\ InputsOK
    /\ lang_to_learn = "it"
    /\ native_lang = "de"
    /\ word_count \in MinWordCount..MaxWordCount
    /\ pc = "fetch"
    /\ Unset
    /\ lexicon = NoLookups
    /\ cache = EmptyCache
    /\ runs = 1
    /\ previous = NoRun
    /\ calls = [c \in Callers |-> Idle(FALSE, 0)]
    /\ returned = {}

\* the run ends in the exception of fn
Abort(fn) ==
    /\ pc' = "raised"
    /\ exception' = fn

(***************************************************************************)
(* fetched_words = fetch_top_words(lang_to_learn, fallback_lang,           *)
(*                                 buffer_count=100)                       *)
(***************************************************************************)
\* the request for the fallback language is made
SecondRequest(primary, buffer_count) ==
    LET words == get_words(primary, buffer_count) IN ~Raised(words) /\ words.val = <<>>

Fetch(Rs) ==
    /\ pc = "fetch"
    /\ LET key == <<lang_to_learn, fallback_lang, BufferCount>> IN
       \* no request is made on a hit
       \E primary \in (IF CacheHas(cache, "fetch_top_words", key) THEN {ConnectionError} ELSE Rs) :
       \E secondary \in (IF SecondRequest(primary, BufferCount) THEN Rs ELSE {primary}) :
          LET computed == fetch_top_words(primary, secondary, BufferCount)
              asked == IF SecondRequest(primary, BufferCount)
                       THEN <<primary, secondary>> ELSE <<primary>>
              result == cache_data(cache, "fetch_top_words", key, computed)
          IN /\ responses' = IF CacheHas(cache, "fetch_top_words", key) THEN <<>> ELSE asked
             /\ cache' = cache_after(cache, "fetch_top_words", key, computed)
             /\ IF Raised(result)
                THEN Abort("fetch_top_words") /\ UNCHANGED fetched_words
                ELSE pc' = "translate" /\ fetched_words' = result.val /\ UNCHANGED exception
    /\ UNCHANGED <<sessions, widgets, translations, valid_translations, similarity_scores, top_matches,
                   selected_meanings, outcomes, lexicon, runs, previous>>

(***************************************************************************)
(* translations = get_translations(fetched_words, lang_to_learn,           *)
(*                                 native_lang)                            *)
(* valid_translations = {... if trans is not None}                         *)
(***************************************************************************)
\* the entries of the pair's lexicon for the words, as a function of the word
LexiconOf(lx, source, target, words) == [w \in words |-> lx[<<source, target, w>>]]

Translate ==
    /\ pc = "translate"
    /\ LET key == <<fetched_words, lang_to_learn, native_lang>>
           words == Range(fetched_words)
           new == IF CacheHas(cache, "get_translations", key) THEN {}
                  ELSE {w \in words : lexicon[<<lang_to_learn, native_lang, w>>] = NotLookedUp}
       IN \E available \in BOOLEAN, found \in [new -> LexEntries] :
          LET lx == IF available
                    THEN [t \in DOMAIN lexicon |->
                            IF t[1] = lang_to_learn /\ t[2] = native_lang /\ t[3] \in new
                            THEN found[t[3]] ELSE lexicon[t]]
                    ELSE lexicon
              computed == get_translations(fetched_words, available,
                             IF available
                             THEN LexiconOf(lx, lang_to_learn, native_lang, words)
                             ELSE <<>>)
              result == cache_data(cache, "get_translations", key, computed)
          IN /\ lexicon' = lx
             /\ cache' = cache_after(cache, "get_translations", key, computed)
             /\ IF Raised(result)
                THEN Abort("get_translations") /\ UNCHANGED <<translations, valid_translations>>
                ELSE /\ pc' = "score"
                     /\ translations' = result.val
                     /\ valid_translations' = valid_only(result.val)
                     /\ UNCHANGED exception
    /\ UNCHANGED <<sessions, widgets, responses, fetched_words, similarity_scores, top_matches,
                   selected_meanings, outcomes, runs, previous>>

(***************************************************************************)
(* similarity_scores = get_similarity_scores(valid_translations)           *)
(***************************************************************************)
Score ==
    /\ pc = "score"
    /\ LET key == <<valid_translations>>
           computed == Return(get_similarity_scores(valid_translations))
           result == cache_data(cache, "get_similarity_scores", key, computed)
       IN /\ cache' = cache_after(cache, "get_similarity_scores", key, computed)
          /\ similarity_scores' = result.val
    /\ pc' = "rank"
    /\ UNCHANGED <<sessions, widgets, exception, responses, fetched_words, translations,
                   valid_translations, top_matches, selected_meanings, outcomes, lexicon,
                   runs, previous>>

(***************************************************************************)
(* sorted_matches = sorted(similarity_scores.items(), key=..., reverse=True)*)
(* top_matches = sorted_matches[:word_count]                               *)
(***************************************************************************)
sorted_matches(scores) == sorted_reverse(scores)

\* selected_words taken from the whole sorted list
selected_untruncated(matches) == Keys(sorted_matches(similarity_scores))

selected_words(matches) == Keys(matches)

Rank ==
    /\ pc = "rank"
    /\ top_matches' = Take(sorted_matches(similarity_scores), word_count)
    /\ pc' = "meanings"
    /\ UNCHANGED <<sessions, widgets, exception, responses, fetched_words, translations,
                   valid_translations, similarity_scores, selected_meanings, outcomes,
                   lexicon, cache, runs, previous>>

(***************************************************************************)
(* selected_meanings = get_meanings(selected_words, src_lang=lang_to_learn,*)
(*                                  dest_lang=native_lang)                 *)
(***************************************************************************)
Meanings ==
    /\ pc = "meanings"
    /\ LET words == selected_words(top_matches)
           key == <<words, lang_to_learn, native_lang>>
           hit == CacheHas(cache, "get_meanings", key)
       IN \E service \in [1..(IF hit THEN 0 ELSE Len(words)) -> ServiceOutcomes] :
          LET computed == Return(get_meanings(words, service))
              result == cache_data(cache, "get_meanings", key, computed)
          IN /\ outcomes' = service
             /\ cache' = cache_after(cache, "get_meanings", key, computed)
             /\ selected_meanings' = result.val
    /\ pc' = "done"
    /\ UNCHANGED <<sessions, widgets, exception, responses, fetched_words, translations,
                   valid_translations, similarity_scores, top_matches, lexicon, runs,
                   previous>>

(***************************************************************************)
(* Streamlit runs the script again after a run that reached its end, the   *)
(* slider moved or not.  The stores outlive the run.                       *)
(***************************************************************************)
Rerun ==
    /\ pc = "done"
    /\ runs < MaxRuns
    /\ runs' = runs + 1
    /\ previous' = [top_matches |-> top_matches, word_count |-> word_count]
    /\ word_count' \in MinWordCount..MaxWordCount
    /\ pc' = "fetch"
    /\ exception' = ""
    /\ responses' = <<>>
    /\ fetched_words' = <<>>
    /\ translations' = <<>>
    /\ valid_translations' = <<>>
    /\ similarity_scores' = <<>>
    /\ top_matches' = <<>>
    /\ selected_meanings' = <<>>
    /\ outcomes' = <<>>
    /\ UNCHANGED <<sessions, lang_to_learn, native_lang, lexicon, cache>>

Next ==
    \/ Fetch(PipelineResponses)
    \/ Translate
    \/ Score
    \/ Rank
    \/ Meanings
    \/ Rerun

Spec == Init /\ [][Next]_vars

TypeOK == pc \in {"fetch", "translate", "score", "rank", "meanings", "done", "raised"}

(***************************************************************************)
(* The scorer on its own: get_similarity_scores applied to one word and    *)
(* its translation, both any string over Chars.                            *)
(***************************************************************************)
ScorerStrings == SeqsOf(Chars, 1, MaxStrLen)

InitScore ==
    /\ lang_to_learn = "it"
    /\ native_lang = "de"
    /\ word_count = MinWordCount
    /\ pc = "score"
    /\ \E w \in ScorerStrings, t \in ScorerStrings :
          /\ fetched_words = <<w>>
          /\ translations = << <<w, t>> >>
          /\ valid_translations = << <<w, t>> >>
    /\ exception = ""
    /\ responses = <<>>
    /\ similarity_scores = <<>>
    /\ top_matches = <<>>
    /\ selected_meanings = <<>>
    /\ outcomes = <<>>
    /\ lexicon = NoLookups
    /\ cache = EmptyCache
    /\ runs = 1
    /\ previous = NoRun
    /\ calls = [c \in Callers |-> Idle(FALSE, 0)]
    /\ returned = {}

NextScore == Score

SpecScore == InitScore /\ [][NextScore]_vars

(***************************************************************************)
(* The cached functions called by concurrent sessions.  st.cache_data      *)
(* looks the arguments up; on a miss it computes under the lock of the     *)
(* arguments, looking them up once more first, so that a session that      *)
(* finds the lock taken waits and then finds the stored value.             *)
(***************************************************************************)
SessionResponses ==
    {ConnectionError, Body(<<>>), Body(<< << <<"B">>, <<"1">> >>, << <<"a">>, <<"1">> >> >>)}

SessionWordLists == {<< <<"B">>, <<"a">> >>}

SessionTranslations == {<< << <<"a">>, <<"a">> >> >>, << << <<"B">>, <<"a">> >> >>}

FetchKeys == {<<l, fallback_lang, BufferCount>> : l \in LearnLanguages}

TranslationKeys == SessionWordLists \X LearnLanguages \X NativeLanguages

ScoreKeys == {<<t>> : t \in SessionTranslations}

\* Locked without the lock
never_locked(c, fn, key) == FALSE

\* another session computes the function for these arguments
Locked(c, fn, key) ==
    \E d \in Callers \ {c} :
        calls[d].at = "computing" /\ calls[d].fn = fn /\ calls[d].key = key

\* session c may call fn with the arguments now: it is idle, or it waited
\* for these arguments and their lock is free
MayCall(c, fn, key) ==
    /\ calls[c].n < MaxCalls \/ calls[c].at = "waiting"
    /\ \/ calls[c].at = "idle" /\ calls[c].n < MaxCalls
       \/ calls[c].at = "waiting" /\ calls[c].fn = fn /\ calls[c].key = key
                                  /\ ~Locked(c, fn, key)

\* the call of fn: a hit returns the stored value, a miss waits for the lock
\* or starts the computation, whose result is `computed`
Enter(c, fn, key, computed) ==
    LET n == IF calls[c].at = "idle" THEN calls[c].n + 1 ELSE calls[c].n
        waited == calls[c].at = "waiting"
    IN IF CacheHas(cache, fn, key)
       THEN /\ returned' = returned \cup {<<fn, key, CacheGet(cache, fn, key)>>}
            /\ calls' = [calls EXCEPT ![c] = Idle(waited, n)]
       ELSE IF Locked(c, fn, key)
       THEN /\ calls' = [calls EXCEPT ![c] =
                           [at |-> "waiting", fn |-> fn, key |-> key, n |-> n,
                            result |-> Return(<<>>), waited |-> TRUE]]
            /\ UNCHANGED returned
       ELSE /\ calls' = [calls EXCEPT ![c] =
                           [at |-> "computing", fn |-> fn, key |-> key, n |-> n,
                            result |-> computed, waited |-> waited]]
            /\ UNCHANGED returned

script == <<widgets, pc, exception, responses, fetched_words, translations,
            valid_translations, similarity_scores, top_matches, selected_meanings,
            outcomes, runs, previous>>

CallFetch(c) ==
    /\ \E key \in FetchKeys, primary \in SessionResponses, secondary \in SessionResponses :
          /\ MayCall(c, "fetch_top_words", key)
          /\ Enter(c, "fetch_top_words", key, fetch_top_words(primary, secondary, key[3]))
    /\ UNCHANGED <<script, lexicon, cache>>

CallTranslations(c) ==
    /\ \E key \in TranslationKeys, available \in BOOLEAN :
          /\ MayCall(c, "get_translations", key)
          /\ Enter(c, "get_translations", key,
                   get_translations(key[1], available,
                                    LexiconOf(lexicon, key[2], key[3], Range(key[1]))))
    /\ UNCHANGED <<script, lexicon, cache>>

CallScores(c) ==
    /\ \E key \in ScoreKeys :
          /\ MayCall(c, "get_similarity_scores", key)
          /\ Enter(c, "get_similarity_scores", key, Return(get_similarity_scores(key[1])))
    /\ UNCHANGED <<script, lexicon, cache>>

\* the computation ends: its value is stored and returned, or its exception
\* reaches the caller; the lock is released
Finish(c) ==
    /\ calls[c].at = "computing"
    /\ cache' = cache_after(cache, calls[c].fn, calls[c].key, calls[c].result)
    /\ returned' = IF Raised(calls[c].result) THEN returned
                   ELSE returned \cup {<<calls[c].fn, calls[c].key, calls[c].result.val>>}
    /\ calls' = [calls EXCEPT ![c] = Idle(calls[c].waited, calls[c].n)]
    /\ UNCHANGED <<script, lexicon>>

\* the lexicon of the pair it -> de has any entry for "a" and no other word;
\* the other pairs' have no word
InitCache ==
    /\ InputsOK
    /\ \A r \in SessionResponses : Len(r.text) <= MaxLines
    /\ lang_to_learn = "it"
    /\ native_lang = "de"
    /\ word_count = MinWordCount
    /\ pc = "fetch"
    /\ Unset
    /\ \E ea \in LexEntries :
          lexicon = [t \in DOMAIN NoLookups |->
                       IF t[1] = "it" /\ t[2] = "de" /\ t[3] = <<"a">> THEN ea ELSE KeyError]
    /\ cache = EmptyCache
    /\ runs = 1
    /\ previous = NoRun
    /\ calls = [c \in Callers |-> Idle(FALSE, 0)]
    /\ returned = {}

NextCache ==
    \E c \in Callers :
        \/ CallFetch(c)
        \/ CallTranslations(c)
        \/ CallScores(c)
        \/ Finish(c)

SpecCache == InitCache /\ [][NextCache]_vars

(***************************************************************************)
(* Properties of a script run.                                             *)
(***************************************************************************)
Ranked == pc \in {"meanings", "done"}

Translated == pc \in {"score", "rank", "meanings", "done"}

\* the entry of the pair's lexicon for a word of the list
EntryOf(w) == lexicon[<<lang_to_learn, native_lang, w>>]

HasTranslation(w) == EntryOf(w).found /\ EntryOf(w).candidates # <<>>

\* the position of the first occurrence of w in the list
FirstIndex(list, w) == CHOOSE i \in 1..Len(list) : list[i] = w /\ \A j \in 1..(i - 1) : list[j] # w

\* C1: the ranked list is sorted non-increasing by score and holds exactly
\* min(word_count, number of scored pairs) of the scored pairs: all of them
\* when there are fewer than word_count.
C1_RankedList ==
    Ranked =>
        /\ \A i \in 1..(Len(top_matches) - 1) : ScoreLE(top_matches[i + 1][2], top_matches[i][2])
        /\ Len(top_matches) = Min(word_count, Len(similarity_scores))
        /\ Range(top_matches) \subseteq Range(similarity_scores)
        /\ Cardinality(Range(top_matches)) = Len(top_matches)
        /\ Len(similarity_scores) <= word_count => Range(top_matches) = Range(similarity_scores)

C1_Witness ==
    /\ pc = "done"
    /\ Len(similarity_scores) > word_count
    /\ Len(top_matches) >= 2
    /\ ScoreLT(top_matches[2][2], top_matches[1][2])

\* C2: a word whose lookup failed is in no downstream structure (valid
\* translations, scores, ranked list, meanings), and every other word of the
\* batch keeps the first candidate of its lexicon entry.
C2_FailedWordAbsent ==
    Translated =>
        \A w \in Range(fetched_words) :
            IF HasTranslation(w)
            THEN /\ Get(translations, w) = EntryOf(w).candidates[1]
                 /\ w \in KeySet(valid_translations)
            ELSE /\ w \notin KeySet(valid_translations)
                 /\ w \notin KeySet(similarity_scores)
                 /\ w \notin KeySet(top_matches)
                 /\ w \notin KeySet(selected_meanings)

C2_Witness ==
    /\ pc = "done"
    /\ Len(fetched_words) = 3
    /\ Cardinality({w \in Range(fetched_words) : ~HasTranslation(w)}) = 1
    /\ Len(top_matches) = 2
    /\ Len(selected_meanings) = 2

\* the list the claim says the word source yields for a response
Yield(response) ==
    IF response.failed \/ response.status # 200 THEN <<>>
    ELSE LET lines == Take(response.text, BufferCount) IN [i \in 1..Len(lines) |-> lines[i][1]]

\* C3 (as claimed): fetch_top_words returns; it returns the primary list when
\* that is not empty, and the fallback list (empty when both are) when the
\* primary source yields nothing, a network failure and a missing language
\* included.
C3_Fallback ==
    (pc \in {"translate", "raised"} /\ responses # <<>>) =>
        /\ pc # "raised"
        /\ IF Yield(responses[1]) # <<>>
           THEN fetched_words = Yield(responses[1])
           ELSE Len(responses) = 2 /\ fetched_words = Yield(responses[2])

\* C4 (as claimed): a run whose word source failed or yielded no word does not
\* raise and ends with an empty ranked list.
C4_EmptySource ==
    /\ (pc = "raised" /\ exception = "fetch_top_words") => FALSE
    /\ (pc = "raised" /\ exception # "fetch_top_words") => fetched_words # <<>>
    /\ (pc = "done" /\ fetched_words = <<>>) => top_matches = <<>>

\* C5 (as claimed): get_translations never raises, whatever the lexicon, and
\* maps every word to the first candidate or to None.
C5_NeverRaises ==
    /\ ~(pc = "raised" /\ exception = "get_translations")
    /\ Translated =>
          \A w \in Range(fetched_words) :
              Get(translations, w) = IF HasTranslation(w) THEN EntryOf(w).candidates[1] ELSE None

\* C7: words of equal score are ranked in the order of their first
\* occurrences in the frequency list, and a run with the widgets and the
\* external responses of the run before ranks as that run did.
C7_Deterministic ==
    Ranked =>
        /\ \A i \in 1..Len(top_matches) : \A j \in (i + 1)..Len(top_matches) :
              ScoreEq(top_matches[i][2], top_matches[j][2]) =>
                  FirstIndex(fetched_words, top_matches[i][1])
                      < FirstIndex(fetched_words, top_matches[j][1])
        /\ (runs > 1 /\ word_count = previous.word_count) => top_matches = previous.top_matches

C7_Witness ==
    /\ pc = "done"
    /\ runs > 1
    /\ word_count = previous.word_count
    /\ Len(top_matches) >= 2
    /\ ScoreEq(top_matches[1][2], top_matches[2][2])
    /\ Cardinality(Range(fetched_words)) < Len(fetched_words)

\* get_meanings was computed in this run, not taken from its store
Computed == Len(outcomes) = Len(top_matches)

\* C8: get_meanings gives one entry to every selected word, in order: the
\* service's answer, or the sentinel when the service failed for that word.
C8_Meanings ==
    pc = "done" =>
        LET words == selected_words(top_matches) IN
        /\ Keys(selected_meanings) = words
        /\ \A i \in 1..Len(words) :
              /\ selected_meanings[i][2] \in {NoTranslation, GoogleTranslate(words[i])}
              /\ Computed =>
                    selected_meanings[i][2] =
                        IF outcomes[i] = "error" THEN NoTranslation
                        ELSE GoogleTranslate(words[i])

C8_Witness ==
    /\ pc = "done"
    /\ Len(selected_meanings) = 3
    /\ outcomes[2] = "error"
    /\ selected_meanings[3][2] = GoogleTranslate(top_matches[3][1])

\* C9: the keys of translations and of selected_meanings are words of the
\* fetched list, and the meanings are those of the ranked (truncated) words.
C9_KeySubsets ==
    /\ KeySet(translations) \subseteq Range(fetched_words)
    /\ KeySet(selected_meanings) \subseteq Range(fetched_words)
    /\ pc = "done" => KeySet(selected_meanings) = KeySet(top_matches)

C9_Witness ==
    /\ pc = "done"
    /\ top_matches # <<>>
    /\ Len(top_matches) < Len(valid_translations)
    /\ Len(valid_translations) < Len(translations)

\* the normal form of a string: diacritics removed, lower-cased
normalize(str) == lower(unidecode(str))

\* C6 (as claimed): every score is in [0, 1] and is 1.0 exactly when the
\* normal forms of the word and of its translation are equal.
C6_ScoreRange ==
    pc = "rank" =>
        \A i \in 1..Len(valid_translations) :
            LET word == valid_translations[i][1]
                trans == valid_translations[i][2]
                score == Get(similarity_scores, word)
            IN /\ 0 <= score[1] /\ score[1] <= score[2]
               /\ score[1] = score[2] <=> normalize(word) = normalize(trans)

\* C10: calls of one cached function with the same arguments return the same
\* value, which is the stored entry, whether they follow or overlap one
\* another.
C10_Idempotent ==
    \A r \in returned :
        /\ CacheHas(cache, r[1], r[2]) /\ CacheGet(cache, r[1], r[2]) = r[3]
        /\ \A q \in returned : (q[1] = r[1] /\ q[2] = r[2]) => q[3] = r[3]

C10_Witness ==
    /\ \A c \in Callers : calls[c].at = "idle" /\ calls[c].n = MaxCalls
    /\ calls["s2"].waited
    /\ \E r \in returned : r[1] = "fetch_top_words" /\ r[3] # <<>>

====
